---------------------------- MODULE Spec2Model ----------------------------
(***************************************************************************)
(* A model of igp_scraper.py: the seismic-feed Lambda that fetches the     *)
(* latest features from the ArcGIS service, normalizes each one into a     *)
(* flat record and replaces the content of a DynamoDB table with them.     *)
(*                                                                         *)
(* Two specifications share the module:                                    *)
(*   Spec      the handler pipeline (fetch, normalize, scan, batched       *)
(*             deletes and puts, response) run by two invocations          *)
(*             against one shared table;                                   *)
(*   SpecNorm  the pure functions _ms_to_iso and _normalize_feature        *)
(*             applied to inputs drawn from bounded sets.                  *)
(*                                                                         *)
(* Python values are records [t, hi, i, s]: t is the type tag, s the text  *)
(* of a str as a sequence of one-character strings, and (hi, i) an int of  *)
(* value hi * MsPerDay + i with 0 <= i < MsPerDay (epoch milliseconds do   *)
(* not fit the checker's 32-bit integers, so an int is kept as whole days  *)
(* and a remainder).                                                       *)
(***************************************************************************)
EXTENDS Integers, Sequences, FiniteSets, TLC

(***************************************************************************)
(* Bounds of the model.                                                    *)
(***************************************************************************)
\* features in one feed response (the code asks the service for at most Limit)
MaxFeatures == 2
\* rows that fit the single page (1 MB) one table.scan() call returns
ScanPageRows == 26

(***************************************************************************)
(* Program constants.                                                      *)
(***************************************************************************)
\* lambda_handler: _fetch_last_sismos(limit=10)
Limit == 10
\* table.batch_writer(): the writer sends its buffer every 25 requests
FlushAmount == 25
\* _ms_to_iso: ms / 1000.0
MsPerSecond == 1000

MsPerDay == 86400 * MsPerSecond

(***************************************************************************)
(* Python values.                                                          *)
(***************************************************************************)
PyNone == [t |-> "None", hi |-> 0, i |-> 0, s |-> <<>>]
\* what dict.get sees for a key the mapping does not hold
Absent == [t |-> "absent", hi |-> 0, i |-> 0, s |-> <<>>]
PyStr(cs) == [t |-> "str", hi |-> 0, i |-> 0, s |-> cs]
\* the int days * MsPerDay + ms
PyIntAt(days, ms) ==
    [t |-> "int", hi |-> days + (ms \div MsPerDay), i |-> ms % MsPerDay, s |-> <<>>]
PyInt(n) == PyIntAt(0, n)

\* bool(v): None, 0 and "" are falsy
Truthy(v) ==
    CASE v.t = "None" -> FALSE
      [] v.t = "int" -> ~(v.hi = 0 /\ v.i = 0)
      [] v.t = "str" -> v.s /= <<>>
      [] OTHER -> FALSE

\* a or b
PyOr(a, b) == IF Truthy(a) THEN a ELSE b

\* attrs.get(key, default)
Get(attrs, key, default) == IF attrs[key].t = "absent" THEN default ELSE attrs[key]

DigitChars == <<"0", "1", "2", "3", "4", "5", "6", "7", "8", "9">>

RECURSIVE NatDigits(_)
\* the decimal digits of a natural number, most significant first
NatDigits(n) == IF n < 10 THEN <<n>> ELSE Append(NatDigits(n \div 10), n % 10)

RECURSIVE MulSmall(_, _, _)
\* digits (least significant first) times k, plus carry
MulSmall(ds, k, carry) ==
    IF ds = <<>>
    THEN IF carry = 0 THEN <<>> ELSE MulSmall(<<0>>, 0, carry)
    ELSE LET v == Head(ds) * k + carry
         IN  <<v % 10>> \o MulSmall(Tail(ds), k, v \div 10)

RECURSIVE AddDigits(_, _, _)
\* the sum of two digit sequences (least significant first), plus carry
AddDigits(a, b, carry) ==
    IF a = <<>> /\ b = <<>>
    THEN IF carry = 0 THEN <<>> ELSE <<carry>>
    ELSE LET x == IF a = <<>> THEN 0 ELSE Head(a)
             y == IF b = <<>> THEN 0 ELSE Head(b)
             v == x + y + carry
         IN  <<v % 10>> \o AddDigits(IF a = <<>> THEN <<>> ELSE Tail(a),
                                     IF b = <<>> THEN <<>> ELSE Tail(b), v \div 10)

Reverse(q) == [k \in 1..Len(q) |-> q[Len(q) + 1 - k]]

RECURSIVE StripZeros(_)
StripZeros(ds) ==
    IF Len(ds) > 1 /\ Head(ds) = 0 THEN StripZeros(Tail(ds)) ELSE ds

\* the decimal digits of days * MsPerDay + ms, for days >= 0 and 0 <= ms < MsPerDay
MagnitudeDigits(days, ms) ==
    StripZeros(Reverse(AddDigits(MulSmall(Reverse(NatDigits(days)), MsPerDay, 0),
                                 Reverse(NatDigits(ms)), 0)))

DigitText(ds) == [k \in 1..Len(ds) |-> DigitChars[ds[k] + 1]]

\* str(n) for an int
IntText(v) ==
    IF v.hi >= 0
    THEN DigitText(MagnitudeDigits(v.hi, v.i))
    ELSE <<"-">> \o (IF v.i = 0
                     THEN DigitText(MagnitudeDigits(-v.hi, 0))
                     ELSE DigitText(MagnitudeDigits(-v.hi - 1, MsPerDay - v.i)))

\* str(v)
PyStrOf(v) ==
    CASE v.t = "None" -> <<"N", "o", "n", "e">>
      [] v.t = "int" -> IntText(v)
      [] OTHER -> v.s

(***************************************************************************)
(* _ms_to_iso.                                                             *)
(***************************************************************************)
\* datetime.utcfromtimestamp accepts the years 1 to 9999: the days since
\* 1970-01-01 of 0001-01-01 and of 9999-12-31
MinDay == -719162
MaxDay == 2932896

\* the proleptic Gregorian date of a day number (days since 1970-01-01), as
\* datetime computes it
CivilFromDays(days) ==
    LET z == days + 719468
        era == z \div 146097
        doe == z - era * 146097
        yoe == (doe - (doe \div 1460) + (doe \div 36524) - (doe \div 146096)) \div 365
        doy == doe - (365 * yoe + (yoe \div 4) - (yoe \div 100))
        mp == (5 * doy + 2) \div 153
        d == doy - ((153 * mp + 2) \div 5) + 1
        m == IF mp < 10 THEN mp + 3 ELSE mp - 9
        y == yoe + era * 400 + (IF m <= 2 THEN 1 ELSE 0)
    IN  [year |-> y, month |-> m, day |-> d]

\* n in decimal, zero-padded on the left to w characters
Pad(n, w) ==
    LET ds == NatDigits(n)
    IN  DigitText([k \in 1..(w - Len(ds)) |-> 0] \o ds)

\* datetime.isoformat(): YYYY-MM-DDTHH:MM:SS, then .ffffff when the
\* microsecond is not 0
IsoFormat(date, msOfDay) ==
    LET sec == msOfDay \div MsPerSecond
        us == (msOfDay % MsPerSecond) * 1000
    IN  Pad(date.year, 4) \o <<"-">> \o Pad(date.month, 2) \o <<"-">> \o Pad(date.day, 2)
        \o <<"T">> \o Pad(sec \div 3600, 2) \o <<":">> \o Pad((sec \div 60) % 60, 2)
        \o <<":">> \o Pad(sec % 60, 2)
        \o (IF us = 0 THEN <<>> ELSE <<".">> \o Pad(us, 6))

\* datetime.utcfromtimestamp(ms / 1000.0) raises: ms is not a number
\* (TypeError) or the instant is outside the years 1..9999 (ValueError,
\* OverflowError)
ConversionFails(ms) == ms.t /= "int" \/ ms.hi < MinDay \/ ms.hi > MaxDay

\* (variant) _ms_to_iso without its test for None: the division raises, and
\* the except branch returns str(None)
MsToIsoNoneUnchecked(ms) ==
    IF ConversionFails(ms)
    THEN PyStr(PyStrOf(ms))
    ELSE PyStr(IsoFormat(CivilFromDays(ms.hi), ms.i))

\* the value _ms_to_iso returns: "" for None, the ISO text of the instant,
\* or, from the except branch, str(ms)
_ms_to_iso(ms) ==
    IF ms.t = "None"
    THEN PyStr(<<>>)
    ELSE IF ConversionFails(ms)
         THEN PyStr(PyStrOf(ms))
         ELSE PyStr(IsoFormat(CivilFromDays(ms.hi), ms.i))

(***************************************************************************)
(* _normalize_feature.                                                     *)
(***************************************************************************)
\* the attribute names _normalize_feature reads
AttrKeys ==
    {"code", "fechaevento", "fecha", "hora", "ref", "magnitud", "int_", "prof",
     "profundidad", "departamento", "sentido", "ultimo"}

\* the keys of the dict _normalize_feature builds
ItemKeys ==
    {"id", "codigo", "fechaEvento", "horaLocal", "referencia", "magnitud",
     "intensidad", "profundidadKm", "profundidadCategoria", "departamento",
     "sentido", "ultimoFlag"}

\* {}
EmptyDict == [k \in AttrKeys |-> Absent]

\* A feature is a JSON value: a mapping whose "attributes" entry is absent,
\* null or a mapping (FeatureOf), or no mapping at all (NotAMapping).
FeatureOf(tag, attrs) == [t |-> "dict", at |-> tag, d |-> attrs]
NotAMapping == [t |-> "None", at |-> "absent", d |-> EmptyDict]

\* uuid.uuid4() draws an identifier no other call draws: the k-th call of
\* invocation r draws number Uuid4Draw(r, k)
Uuid4Draw(r, k) == r * Limit + k

\* str(uuid.uuid4()): the text of identifier number n
Uuid4Text(n) == <<"u", "u", "i", "d", "-">> \o DigitText(NatDigits(n))

\* feature.get("attributes", {}) or {}
AttrsOf(feature) == IF feature.at = "dict" THEN feature.d ELSE EmptyDict

\* feature.get raises AttributeError when the feature is no mapping
NormalizeRaises(feature) == feature.t /= "dict"

\* attrs.get("fechaevento") or attrs.get("fecha")
FechaeventoMs(attrs) ==
    PyOr(Get(attrs, "fechaevento", PyNone), Get(attrs, "fecha", PyNone))

\* attrs.get(key, "") or ""
TextOrEmpty(attrs, key) == PyOr(Get(attrs, key, PyStr(<<>>)), PyStr(<<>>))

\* str(attrs.get(key, ""))
Coerced(attrs, key) == PyStr(PyStrOf(Get(attrs, key, PyStr(<<>>))))

\* the dict _normalize_feature returns for a mapping, with the n-th uuid
_normalize_feature(feature, n) ==
    LET attrs == AttrsOf(feature)
    IN  [id |-> PyStr(Uuid4Text(n)),
         codigo |-> Coerced(attrs, "code"),
         fechaEvento |-> _ms_to_iso(FechaeventoMs(attrs)),
         horaLocal |-> TextOrEmpty(attrs, "hora"),
         referencia |-> TextOrEmpty(attrs, "ref"),
         magnitud |-> Coerced(attrs, "magnitud"),
         intensidad |-> TextOrEmpty(attrs, "int_"),
         profundidadKm |-> Coerced(attrs, "prof"),
         profundidadCategoria |-> TextOrEmpty(attrs, "profundidad"),
         departamento |-> TextOrEmpty(attrs, "departamento"),
         sentido |-> TextOrEmpty(attrs, "sentido"),
         ultimoFlag |-> TextOrEmpty(attrs, "ultimo")]

(***************************************************************************)
(* The feed, the table and the batch writer.                               *)
(***************************************************************************)
\* the invocations of lambda_handler that share the table: two, which is
\* what the statements about consecutive and about concurrent runs speak of
Runs == {1, 2}

Range(q) == {q[k] : k \in 1..Len(q)}

Min(a, b) == IF a < b THEN a ELSE b

\* a feature with every attribute populated
FullFeature ==
    FeatureOf("dict",
              [k \in AttrKeys |->
                   CASE k = "fechaevento" -> PyIntAt(19884, 1123)
                     [] k = "fecha" -> PyNone
                     [] k = "magnitud" -> PyInt(4)
                     [] k = "prof" -> PyInt(35)
                     [] k = "code" -> PyInt(812)
                     [] OTHER -> PyStr(<<"x">>)])

\* a feature whose attributes are all null
NullFeature == FeatureOf("dict", [k \in AttrKeys |-> PyNone])

\* the k-th most recent feature the service holds
UpstreamFeature(k) == IF k % 2 = 1 THEN FullFeature ELSE NullFeature

\* The JSON bodies a successful request can bring: no "features" key, the n
\* most recent features (n at most the limit asked for), or a list holding
\* a null in place of a feature.
FeedBodies(limit) ==
    {[has |-> FALSE, features |-> <<>>]}
    \cup {[has |-> TRUE, features |-> [k \in 1..n |-> UpstreamFeature(k)]] :
              n \in 0..Min(limit, MaxFeatures)}
    \cup {[has |-> TRUE, features |-> <<NotAMapping>>]}

\* what makes requests.get, raise_for_status or resp.json raise
FetchErrors == {"timeout", "http_status"}

\* data.get("features", [])
FeaturesOf(data) == IF data.has THEN data.features ELSE <<>>

\* the rows a table can hold before the first invocation, by their key
OldKey(k) == <<"o", "l", "d", "-">> \o DigitText(NatDigits(k))
OldRows(n) == {OldKey(k) : k \in 1..n}
InitialSizes == {0, 1, FlushAmount - 1, FlushAmount, ScanPageRows + 1}

\* the digit a character stands for
DigitOf(c) == CHOOSE d \in 0..9 : DigitChars[d + 1] = c

RECURSIVE ParseNat(_)
\* the natural number a sequence of digit characters writes
ParseNat(cs) ==
    IF cs = <<>> THEN 0
    ELSE 10 * ParseNat(SubSeq(cs, 1, Len(cs) - 1)) + DigitOf(cs[Len(cs)])

\* A scan walks the table in the order of the hash of the keys, the same
\* order at every scan.  The model orders the old rows by their number and
\* the rows of the invocations after them, by the number of their uuid.
ScanRank(key) ==
    IF key[1] = "o"
    THEN ParseNat(SubSeq(key, 5, Len(key)))
    ELSE 1000000 + ParseNat(SubSeq(key, 6, Len(key)))

RECURSIVE InScanOrder(_)
InScanOrder(rows) ==
    IF rows = {} THEN <<>>
    ELSE LET first == CHOOSE k \in rows : \A o \in rows : ScanRank(k) <= ScanRank(o)
         IN  <<first>> \o InScanOrder(rows \ {first})

\* table.scan(): one call returns one page, the first ScanPageRows rows in
\* scan order; the code reads no further page
ScanItems(tbl) ==
    SubSeq(InScanOrder(tbl), 1, Min(Cardinality(tbl), ScanPageRows))

\* one DeleteRequest or PutRequest applied to the table
ApplyRequest(tbl, req) ==
    IF req.op = "delete" THEN tbl \ {req.key} ELSE tbl \cup {req.key}

RECURSIVE ApplyBatch(_, _)
\* one batch_write_item call that succeeds
ApplyBatch(tbl, reqs) ==
    IF reqs = <<>> THEN tbl ELSE ApplyBatch(ApplyRequest(tbl, Head(reqs)), Tail(reqs))

\* (variant) _save_to_dynamo with its two loops in the other order
SaveRequestsPutsFirst(scannedKeys, newItems) ==
    [k \in 1..Len(newItems) |-> [op |-> "put", key |-> newItems[k].id.s]]
    \o [k \in 1..Len(scannedKeys) |-> [op |-> "delete", key |-> scannedKeys[k]]]

\* (variant) _save_to_dynamo without the loop that clears the table
SaveRequestsNoDeletes(scannedKeys, newItems) ==
    [k \in 1..Len(newItems) |-> [op |-> "put", key |-> newItems[k].id.s]]

\* the requests the two loops of _save_to_dynamo hand to the batch writer,
\* in program order: a delete per scanned row, then a put per new item
SaveRequests(scannedKeys, newItems) ==
    [k \in 1..Len(scannedKeys) |-> [op |-> "delete", key |-> scannedKeys[k]]]
    \o [k \in 1..Len(newItems) |-> [op |-> "put", key |-> newItems[k].id.s]]

\* the responses of lambda_handler
NoResponse == [statusCode |-> 0, body |-> [t |-> "none", records |-> <<>>, error |-> ""]]

OkResponse(newItems) ==
    [statusCode |-> 200, body |-> [t |-> "array", records |-> newItems, error |-> ""]]

\* (variant) an except clause that reports the error under the success status
ErrorResponseAs200(message) ==
    [statusCode |-> 200, body |-> [t |-> "object", records |-> <<>>, error |-> message]]

ErrorResponse(message) ==
    [statusCode |-> 500, body |-> [t |-> "object", records |-> <<>>, error |-> message]]

\* (variant) a handler that answers a failure by running the pipeline again
PcRetry == "fetch"

\* (variant) a handler that swallows the failure and goes on writing
PcContinue == "write"

\* where an invocation stands once the except clause has returned
PcAfterError == "done"

(***************************************************************************)
(* State.                                                                  *)
(***************************************************************************)
VARIABLES
    table,      \* the DynamoDB table: the set of the keys of its rows
    pc,         \* where each invocation of lambda_handler stands
    features,   \* what _fetch_last_sismos returned to it
    items,      \* its normalized records
    scanned,    \* the keys of scan["Items"]
    cursor,     \* how many requests its batch writer has sent
    response,   \* what lambda_handler returned
    hist,       \* per invocation: what it did (observation only)
    call,       \* SpecNorm: the pure function under test and its argument
    result      \* SpecNorm: what it returned

vars == <<table, pc, features, items, scanned, cursor, response,
          hist, call, result>>

handlerVars == <<table, pc, features, items, scanned, cursor, response,
                 hist>>

NoHist ==
    [fetches |-> 0, saves |-> 0, responses |-> 0, failure |-> "none",
     deleted |-> {}, inserted |-> {}, before |-> {}, after |-> {},
     alone |-> TRUE, truncated |-> FALSE, lateOps |-> 0]

NoCall == [fn |-> "none", ms |-> PyNone, feature |-> NotAMapping]
NoItem == [k \in ItemKeys |-> Absent]
NoResult == [fn |-> "none", raised |-> FALSE, text |-> PyNone, item |-> NoItem]

InitHandler ==
    /\ pc = [r \in Runs |-> "idle"]
    /\ features = [r \in Runs |-> <<>>]
    /\ items = [r \in Runs |-> <<>>]
    /\ scanned = [r \in Runs |-> <<>>]
    /\ cursor = [r \in Runs |-> 0]
    /\ response = [r \in Runs |-> NoResponse]
    /\ hist = [r \in Runs |-> NoHist]

Init ==
    /\ table \in {OldRows(n) : n \in InitialSizes}
    /\ InitHandler
    /\ call = NoCall
    /\ result = NoResult

InFlight(r) == pc[r] \notin {"idle", "done"}

\* a pipeline step of r, counted when it runs after r has failed
Stepped(h) == [h EXCEPT !.lateOps = IF h.failure = "none" THEN @ ELSE @ + 1]

(***************************************************************************)
(* lambda_handler.                                                         *)
(***************************************************************************)
\* the service invokes the handler
Invoke(r) ==
    /\ pc[r] = "idle"
    /\ pc' = [pc EXCEPT ![r] = "fetch"]
    /\ hist' = [s \in Runs |->
                   IF s = r
                   THEN [hist[s] EXCEPT !.before = table,
                                        !.alone = \A o \in Runs \ {r} : ~InFlight(o)]
                   ELSE IF InFlight(s) THEN [hist[s] EXCEPT !.alone = FALSE]
                   ELSE hist[s]]
    /\ UNCHANGED <<table, features, items, scanned, cursor, response,
                   call, result>>

\* the except clause: the exception becomes the 500 response (no step that
\* raises has changed the table)
Caught(r, kind, message, h) ==
    /\ response' = [response EXCEPT ![r] = ErrorResponse(message)]
    /\ pc' = [pc EXCEPT ![r] = PcAfterError]
    /\ hist' = [hist EXCEPT ![r] = [h EXCEPT !.failure = kind,
                                             !.responses = @ + 1,
                                             !.after = table]]

\* _fetch_last_sismos returns the features of the response
FetchOk(r) ==
    /\ pc[r] = "fetch"
    /\ \E data \in FeedBodies(Limit) :
           features' = [features EXCEPT ![r] = FeaturesOf(data)]
    /\ pc' = [pc EXCEPT ![r] = "normalize"]
    /\ hist' = [hist EXCEPT ![r] = [Stepped(@) EXCEPT !.fetches = @ + 1]]
    /\ UNCHANGED <<table, items, scanned, cursor, response, call, result>>

\* (variant) a handler that clears the table before it fetches
FetchFailTableCleared(r) ==
    /\ pc[r] = "fetch"
    /\ table' = {}
    /\ \E e \in FetchErrors :
           response' = [response EXCEPT ![r] = ErrorResponse(e)]
    /\ pc' = [pc EXCEPT ![r] = "done"]
    /\ hist' = [hist EXCEPT ![r] = [Stepped(@) EXCEPT !.fetches = @ + 1,
                                                       !.failure = "fetch",
                                                       !.responses = @ + 1,
                                                       !.after = {}]]
    /\ UNCHANGED <<features, items, scanned, cursor, call, result>>

\* requests.get, raise_for_status or resp.json raises
FetchFail(r) ==
    /\ pc[r] = "fetch"
    /\ \E e \in FetchErrors :
           Caught(r, "fetch", e, [Stepped(hist[r]) EXCEPT !.fetches = @ + 1])
    /\ UNCHANGED <<table, features, items, scanned, cursor, call, result>>

\* items = [_normalize_feature(f) for f in features]
NormalizeOk(r) ==
    /\ pc[r] = "normalize"
    /\ \A k \in 1..Len(features[r]) : ~NormalizeRaises(features[r][k])
    /\ items' = [items EXCEPT ![r] =
                     [k \in 1..Len(features[r]) |->
                          _normalize_feature(features[r][k], Uuid4Draw(r, k))]]
    /\ pc' = [pc EXCEPT ![r] = "scan"]
    /\ hist' = [hist EXCEPT ![r] = Stepped(@)]
    /\ UNCHANGED <<table, features, scanned, cursor, response, call, result>>

\* a feature that is no mapping makes the comprehension raise
NormalizeFail(r) ==
    /\ pc[r] = "normalize"
    /\ \E k \in 1..Len(features[r]) : NormalizeRaises(features[r][k])
    /\ Caught(r, "normalize", "AttributeError", Stepped(hist[r]))
    /\ UNCHANGED <<table, features, items, scanned, cursor, call, result>>

\* _save_to_dynamo: scan = table.scan()
ScanOk(r) ==
    /\ pc[r] = "scan"
    /\ scanned' = [scanned EXCEPT ![r] = ScanItems(table)]
    /\ pc' = [pc EXCEPT ![r] = "write"]
    /\ hist' = [hist EXCEPT ![r] = [Stepped(@) EXCEPT
                                        !.saves = @ + 1,
                                        !.truncated = Cardinality(table) > ScanPageRows]]
    /\ UNCHANGED <<table, features, items, cursor, response, call, result>>

\* boto3.resource, dynamodb.Table or table.scan raises
ScanFail(r) ==
    /\ pc[r] = "scan"
    /\ Caught(r, "scan", "ClientError", [Stepped(hist[r]) EXCEPT !.saves = @ + 1])
    /\ UNCHANGED <<table, features, items, scanned, cursor, call, result>>

\* the history of r after one of its batches was applied
Applied(h, reqs) ==
    [h EXCEPT !.deleted = @ \cup {reqs[k].key : k \in {j \in 1..Len(reqs) : reqs[j].op = "delete"}},
              !.inserted = @ \cup {reqs[k].key : k \in {j \in 1..Len(reqs) : reqs[j].op = "put"}}]

\* The loops hand the batch writer one request after another; the writer
\* keeps them in its buffer and sends the buffer when it holds FlushAmount
\* requests.  Buffering touches nothing another invocation can see, so one
\* step here runs the loops up to the request that fills the buffer:
\* cursor[r] requests have been sent so far and the buffer is empty.
\* A batch_write_item call is one step of the table: it applies the requests
\* of the batch, in their order, or raises and applies none (what the writer
\* resends because the table left it unprocessed is part of that step).
NextBatch(r) ==
    SubSeq(SaveRequests(scanned[r], items[r]), cursor[r] + 1,
           Min(cursor[r] + FlushAmount, Len(SaveRequests(scanned[r], items[r]))))

\* a full batch is sent from inside the loops, and the table applies it
WriterFlushOk(r) ==
    /\ pc[r] = "write"
    /\ Len(NextBatch(r)) = FlushAmount
    /\ table' = ApplyBatch(table, NextBatch(r))
    /\ cursor' = [cursor EXCEPT ![r] = @ + FlushAmount]
    /\ hist' = [hist EXCEPT ![r] = Applied(Stepped(@), NextBatch(r))]
    /\ UNCHANGED <<pc, features, items, scanned, response, call, result>>

\* the same, but batch_write_item raises: the exception leaves the with
\* block (whose exit finds the buffer empty) and _save_to_dynamo
WriterFlushFail(r) ==
    /\ pc[r] = "write"
    /\ Len(NextBatch(r)) = FlushAmount
    /\ cursor' = [cursor EXCEPT ![r] = @ + FlushAmount]
    /\ Caught(r, "batch", "ClientError", Stepped(hist[r]))
    /\ UNCHANGED <<table, features, items, scanned, call, result>>

\* the loops end short of a full batch and the with block exits: the writer
\* sends what its buffer holds (nothing, if it is empty), the table applies
\* it, and lambda_handler returns the 200 response
ExitOk(r) ==
    /\ pc[r] = "write"
    /\ Len(NextBatch(r)) < FlushAmount
    /\ table' = ApplyBatch(table, NextBatch(r))
    /\ cursor' = [cursor EXCEPT ![r] = @ + Len(NextBatch(r))]
    /\ response' = [response EXCEPT ![r] = OkResponse(items[r])]
    /\ pc' = [pc EXCEPT ![r] = "done"]
    /\ hist' = [hist EXCEPT ![r] = [Applied(Stepped(@), NextBatch(r)) EXCEPT
                                        !.responses = @ + 1,
                                        !.after = table']]
    /\ UNCHANGED <<features, items, scanned, call, result>>

\* the with block exits and the last batch_write_item raises
ExitFail(r) ==
    /\ pc[r] = "write"
    /\ Len(NextBatch(r)) < FlushAmount
    /\ NextBatch(r) /= <<>>
    /\ cursor' = [cursor EXCEPT ![r] = @ + Len(NextBatch(r))]
    /\ Caught(r, "batch", "ClientError", Stepped(hist[r]))
    /\ UNCHANGED <<table, features, items, scanned, call, result>>

(***************************************************************************)
(* The pure functions, each applied to one argument.                       *)
(***************************************************************************)
\* the values an attribute that holds a date can take
DateValues ==
    {Absent, PyNone, PyInt(0), PyIntAt(19884, 1123), PyStr(<<"a", "b", "c">>)}

\* the values every other attribute can take
OtherValues ==
    {Absent, PyNone, PyInt(0), PyInt(7), PyStr(<<>>), PyStr(<<"a", "b", "c">>)}

\* the features _normalize_feature is applied to
NormInputs ==
    {NotAMapping, FeatureOf("absent", EmptyDict), FeatureOf("None", EmptyDict)}
    \cup {FeatureOf("dict",
                    [k \in AttrKeys |->
                         IF k = "fechaevento" THEN fe
                         ELSE IF k = "fecha" THEN f
                         ELSE v]) :
              fe \in DateValues, f \in DateValues, v \in OtherValues}

\* day numbers from 1968 to 2033, the ends of the range of datetime and the
\* days around the epoch
SampleDays ==
    {23 * k - 730 : k \in 0..1040} \cup {MinDay, MaxDay, -1, 0, 1, 19782}

\* the arguments _ms_to_iso is applied to
MsInputs ==
    {PyNone, PyStr(<<>>), PyStr(<<"a", "b", "c">>), PyInt(-1), PyInt(1500),
     PyIntAt(MaxDay + 1, 0), PyIntAt(MinDay - 1, MsPerDay - 1)}
    \cup {PyIntAt(d, ms) : d \in SampleDays, ms \in {0, 43200000, MsPerDay - MsPerSecond}}
    \cup {PyIntAt(19884, 1123)}

InitNorm ==
    /\ table = {}
    /\ InitHandler
    /\ call \in {[fn |-> "ms", ms |-> v, feature |-> NotAMapping] : v \in MsInputs}
                \cup {[fn |-> "normalize", ms |-> PyNone, feature |-> f] : f \in NormInputs}
    /\ result = NoResult

CallMsToIso ==
    /\ call.fn = "ms"
    /\ result.fn = "none"
    /\ result' = [fn |-> "ms", raised |-> FALSE, text |-> _ms_to_iso(call.ms),
                  item |-> NoItem]
    /\ UNCHANGED <<handlerVars, call>>

CallNormalize ==
    /\ call.fn = "normalize"
    /\ result.fn = "none"
    /\ result' = IF NormalizeRaises(call.feature)
                 THEN [fn |-> "normalize", raised |-> TRUE, text |-> PyNone,
                       item |-> NoItem]
                 ELSE [fn |-> "normalize", raised |-> FALSE, text |-> PyNone,
                       item |-> _normalize_feature(call.feature, 1)]
    /\ UNCHANGED <<handlerVars, call>>

NextNorm == CallMsToIso \/ CallNormalize

SpecNorm == InitNorm /\ [][NextNorm]_vars

Next ==
    \E r \in Runs :
        \/ Invoke(r)
        \/ FetchOk(r)
        \/ FetchFail(r)
        \/ NormalizeOk(r)
        \/ NormalizeFail(r)
        \/ ScanOk(r)
        \/ ScanFail(r)
        \/ WriterFlushOk(r)
        \/ WriterFlushFail(r)
        \/ ExitOk(r)
        \/ ExitFail(r)

Spec == Init /\ [][Next]_vars

(***************************************************************************)
(* Properties of the handler (checked under Spec).                         *)
(***************************************************************************)
\* the keys of a batch of normalized records
KeysOf(newItems) == {newItems[k].id.s : k \in 1..Len(newItems)}

Succeeded(r) == pc[r] = "done" /\ response[r].statusCode = 200

\* the 500 response: an object that holds the error message and no record
IsErrorOnly(resp) ==
    /\ resp.statusCode = 500
    /\ resp.body.t = "object"
    /\ resp.body.records = <<>>
    /\ resp.body.error /= ""

\* C1: whatever the table held, once _save_to_dynamo(batch) has returned
\* without error (no other invocation being in flight) the table holds
\* exactly the rows of batch, so no row of an earlier run survives a newer
\* run that succeeded.
C1_ReplaceAllLeavesExactlyTheBatch ==
    \A r \in Runs :
        Succeeded(r) /\ hist[r].alone => hist[r].after = KeysOf(items[r])

\* C2: a failed feed request gives the 500 response with the error message,
\* issues no scan, delete or insert, and leaves the table as it was when the
\* handler was invoked.
C2_FetchFailureLeavesTheTable ==
    \A r \in Runs :
        hist[r].failure = "fetch" =>
            /\ response[r].statusCode = 500
            /\ response[r].body.t = "object"
            /\ response[r].body.error \in FetchErrors
            /\ hist[r].saves = 0
            /\ cursor[r] = 0
            /\ hist[r].deleted = {} /\ hist[r].inserted = {}
            /\ hist[r].alone => hist[r].after = hist[r].before

\* C2 witness: a lone invocation whose fetch failed over a table with rows
C2_Witness ==
    \E r \in Runs :
        /\ hist[r].failure = "fetch"
        /\ hist[r].alone
        /\ Cardinality(hist[r].before) > 1
        /\ table = hist[r].before

\* C3: an invocation returns exactly one response; it is the 200 response
\* with the whole batch exactly when the fetch, the normalization of every
\* feature and the replacement of the table all completed, and otherwise the
\* 500 response with nothing but the error message.
C3_OneResponseSuccessOrFailure ==
    \A r \in Runs :
        /\ pc[r] \in {"idle", "fetch", "normalize", "scan", "write", "done"}
        /\ hist[r].responses = (IF pc[r] = "done" THEN 1 ELSE 0)
        /\ pc[r] /= "done" => response[r] = NoResponse
        /\ pc[r] = "done" =>
               /\ (response[r].statusCode = 200) <=> (hist[r].failure = "none")
               /\ response[r].statusCode = 200 =>
                      /\ response[r].body = [t |-> "array", records |-> items[r], error |-> ""]
                      /\ hist[r].fetches = 1 /\ hist[r].saves = 1
                      /\ Len(items[r]) = Len(features[r])
                      /\ cursor[r] = Len(SaveRequests(scanned[r], items[r]))
                      /\ hist[r].inserted = KeysOf(items[r])
               /\ response[r].statusCode /= 200 => IsErrorOnly(response[r])

\* C3 witness: one invocation answered 200 with two records, another 500
C3_Witness ==
    \E r, q \in Runs :
        /\ Succeeded(r) /\ Len(response[r].body.records) = 2
        /\ pc[q] = "done" /\ response[q].statusCode = 500

\* C7: a successful invocation that read the whole table leaves a table
\* other than its batch only when another invocation was in flight beside
\* it; and such an interleaving of two successful invocations exists (the
\* witness).
C7_OnlyOverlapCorruptsTheSnapshot ==
    \A r \in Runs :
        Succeeded(r) /\ ~hist[r].truncated /\ hist[r].after /= KeysOf(items[r])
            => ~hist[r].alone

\* C7 witness: two invocations both answered 200, neither scan was cut
\* short, and the table is the batch of neither: it holds rows of both
C7_Witness ==
    /\ \A r \in Runs : Succeeded(r) /\ ~hist[r].truncated /\ items[r] /= <<>>
    /\ \A r \in Runs : table /= KeysOf(items[r])
    /\ \A r \in Runs : KeysOf(items[r]) \subseteq table

\* C8: when a batch of deletes or puts fails, the invocation stops there: no
\* later request is sent, nothing is rolled back (the table is what it was,
\* minus the deletes applied, plus the puts applied), and the response is
\* the 500 response with the error message and no record.
C8_BatchFailureLeavesPartialTable ==
    \A r \in Runs :
        hist[r].failure = "batch" =>
            /\ pc[r] = "done"
            /\ IsErrorOnly(response[r])
            /\ hist[r].lateOps = 0
            /\ hist[r].deleted \subseteq Range(scanned[r])
            /\ hist[r].inserted \subseteq KeysOf(items[r])
            /\ Cardinality(hist[r].deleted) + Cardinality(hist[r].inserted) < cursor[r]
            /\ hist[r].alone =>
                   hist[r].after = (hist[r].before \ hist[r].deleted) \cup hist[r].inserted

\* C8 witness: a lone invocation failed with one of its two records in the
\* table and one old row still there
C8_Witness ==
    \E r \in Runs :
        /\ hist[r].failure = "batch"
        /\ hist[r].alone
        /\ Cardinality(hist[r].inserted) = 1 /\ Len(items[r]) = 2
        /\ hist[r].deleted /= {}
        /\ table = hist[r].after

C10_NoRetries ==
    \A r \in Runs :
        /\ hist[r].fetches <= 1
        /\ hist[r].saves <= 1
        /\ hist[r].lateOps = 0
        /\ cursor[r] <= Len(SaveRequests(scanned[r], items[r]))
        /\ hist[r].failure /= "none" =>
               /\ pc[r] = "done"
               /\ response[r].statusCode = 500
               /\ hist[r].responses = 1

\* C10 witness: an invocation that failed in its second batch, having
\* fetched once and scanned once
C10_Witness ==
    \E r \in Runs :
        /\ hist[r].failure = "batch"
        /\ hist[r].fetches = 1 /\ hist[r].saves = 1
        /\ cursor[r] > FlushAmount

(***************************************************************************)
(* Properties of the pure functions (checked under SpecNorm).              *)
(***************************************************************************)
IsDigits(cs) == \A k \in 1..Len(cs) : \E d \in 1..10 : DigitChars[d] = cs[k]

LeapYear(y) == y % 4 = 0 /\ (y % 100 /= 0 \/ y % 400 = 0)

DaysInMonth(y, m) ==
    IF m = 2 THEN (IF LeapYear(y) THEN 29 ELSE 28)
    ELSE IF m \in {4, 6, 9, 11} THEN 30 ELSE 31

\* the leap years before year y
LeapsBefore(y) == ((y - 1) \div 4) - ((y - 1) \div 100) + ((y - 1) \div 400)

RECURSIVE DaysBeforeMonth(_, _)
DaysBeforeMonth(y, m) ==
    IF m = 1 THEN 0 ELSE DaysBeforeMonth(y, m - 1) + DaysInMonth(y, m - 1)

\* the days from 1970-01-01 to the date y-m-d, counted from the calendar
DayNumber(y, m, d) ==
    365 * (y - 1970) + LeapsBefore(y) - LeapsBefore(1970) + DaysBeforeMonth(y, m) + d - 1

\* cs is the ISO-8601 text YYYY-MM-DDTHH:MM:SS[.ffffff] of the UTC instant
\* that the int v gives in milliseconds since the epoch
IsIsoOf(cs, v) ==
    /\ Len(cs) \in {19, 26}
    /\ cs[5] = "-" /\ cs[8] = "-" /\ cs[11] = "T" /\ cs[14] = ":" /\ cs[17] = ":"
    /\ Len(cs) = 26 => cs[20] = "."
    /\ \A k \in (1..Len(cs)) \ {5, 8, 11, 14, 17, 20} : IsDigits(<<cs[k]>>)
    /\ LET y == ParseNat(SubSeq(cs, 1, 4))
           m == ParseNat(SubSeq(cs, 6, 7))
           d == ParseNat(SubSeq(cs, 9, 10))
           hh == ParseNat(SubSeq(cs, 12, 13))
           mm == ParseNat(SubSeq(cs, 15, 16))
           ss == ParseNat(SubSeq(cs, 18, 19))
           us == IF Len(cs) = 26 THEN ParseNat(SubSeq(cs, 21, 26)) ELSE 0
       IN  /\ m \in 1..12 /\ d \in 1..DaysInMonth(y, m)
           /\ hh < 24 /\ mm < 60 /\ ss < 60
           /\ (Len(cs) = 26) <=> (us /= 0)
           /\ DayNumber(y, m, d) = v.hi
           /\ us % 1000 = 0
           /\ (hh * 3600 + mm * 60 + ss) * MsPerSecond + (us \div 1000) = v.i

\* C4: _normalize_feature never raises on a mapping, whatever its attributes
\* (missing, null, or with fields absent, null or numeric), and returns the
\* twelve fields, every one of them a string.
C4_NormalizeTotalAndAllStrings ==
    result.fn = "normalize" /\ call.feature.t = "dict" =>
        /\ ~result.raised
        /\ DOMAIN result.item = ItemKeys
        /\ \A k \in ItemKeys : result.item[k].t = "str"

\* C5: fechaEvento is the conversion of fechaevento whenever that attribute
\* is present and not null (0 included); fecha is used only when fechaevento
\* is absent or null.
C5_FirstNonNullDateWins ==
    result.fn = "normalize" /\ ~result.raised =>
        LET attrs == AttrsOf(call.feature)
        IN  result.item["fechaEvento"] =
                IF attrs["fechaevento"].t \notin {"absent", "None"}
                THEN _ms_to_iso(attrs["fechaevento"])
                ELSE _ms_to_iso(Get(attrs, "fecha", PyNone))

\* C6: _ms_to_iso returns "" for None, the ISO-8601 UTC text of the instant
\* for a number of milliseconds since the epoch ("1970-01-01T00:00:00" for
\* 0), and the string form of any other value, for which the conversion
\* fails; it never raises.
C6_MsToIsoConversion ==
    result.fn = "ms" =>
        /\ ~result.raised
        /\ result.text.t = "str"
        /\ call.ms.t = "None" => result.text.s = <<>>
        /\ call.ms = PyInt(0) => result.text.s =
               <<"1", "9", "7", "0", "-", "0", "1", "-", "0", "1", "T", "0", "0", ":", "0", "0", ":", "0", "0">>
        /\ call.ms.t = "int" /\ call.ms.hi \in MinDay..MaxDay =>
               IsIsoOf(result.text.s, call.ms)
        /\ call.ms.t = "str" => result.text.s = call.ms.s
        /\ call.ms = PyIntAt(MaxDay + 1, 0) => result.text.s =
               <<"2", "5", "3", "4", "0", "2", "3", "0", "0", "8", "0", "0", "0", "0", "0">>
        /\ call.ms = PyIntAt(MinDay - 1, MsPerDay - 1) => result.text.s =
               <<"-", "6", "2", "1", "3", "5", "5", "9", "6", "8", "0", "0", "0", "0", "1">>

\* C6 witness: noon of a leap day, converted
C6_Witness ==
    /\ result.fn = "ms"
    /\ call.ms = PyIntAt(19782, 43200000)
    /\ result.text.s =
               <<"2", "0", "2", "4", "-", "0", "2", "-", "2", "9", "T", "1", "2", ":", "0", "0", ":", "0", "0">>

=============================================================================
